---- MODULE Spec2Model ----
(***************************************************************************)
(* Model of src/node/entry.ts: the entry() arbitration between the child   *)
(* role (handshake + main), help/version output, the forked VS Code CLI    *)
(* (runVsCodeCli), delegation to an existing instance                      *)
(* (shouldOpenInExistingInstance + openInExistingInstance) and starting a  *)
(* new supervised server (WrapperProcess.start).                           *)
(*                                                                         *)
(* Optional JavaScript values (undefined / null versus a value) are sets:  *)
(* {} is undefined/null and {v} is the value v.  A process exit code is    *)
(* kept the same way: exitCode = {} while the process runs.                *)
(***************************************************************************)
EXTENDS Naturals, Sequences, FiniteSets

\* ------------------------------------------------------------ bounds
\* Longest list of positional paths (args._) an invocation carries.
MaxPaths == 2
\* Most "message" events the forked subprocess emits in one run.
MaxMessages == 3
\* Most "data" events of the response of the existing instance.
MaxData == 2

\* ------------------------------------------------------- environment
\* process.cwd(), as path segments.
Cwd == <<"tmp">>

\* A path is [abs |-> is it absolute, segs |-> its segments].
ArgPaths ==
  { [abs |-> TRUE,  segs |-> <<"tmp", "proj">>],
    [abs |-> FALSE, segs |-> <<"a.txt">>],
    [abs |-> TRUE,  segs |-> <<"tmp", "missing">>] }

\* The file system: absolute paths that exist, and those that are directories.
Existing == { <<"tmp">>, <<"tmp", "proj">>, <<"tmp", "a.txt">> }
Directories == { <<"tmp">>, <<"tmp", "proj">> }

\* Values process.env.VSCODE_IPC_HOOK_CLI can hold: {} is unset, "" is set
\* but empty, the others name a socket.
HookValues == { {}, {""}, {"/tmp/live.sock"}, {"/tmp/stale.sock"} }

\* Sockets on which a code-server instance is listening.
LiveSockets == { "/tmp/live.sock" }

\* Exit codes the forked subprocess reports: {} is null (killed by a signal).
ChildCodes == { {}, {0}, {1}, {3} }

\* Message types the forked subprocess sends.
MessageTypes == { "ready", "other" }

VARIABLES
  isChild,      \* ipcMain.isChild
  hook,         \* process.env.VSCODE_IPC_HOOK_CLI
  args,         \* the parsed arguments ({} before tryParse resolved)
  pc,           \* where entry() stands
  entryState,   \* the promise entry() returned: pending / resolved / rejected
  exitCode,     \* {} while the process runs, {c} once it exited with c
  log,          \* the calls entry and its callees made, in order
  listeners,    \* listeners attached to the forked subprocess
  received,     \* the events the forked subprocess emitted, in order
  socketPath,   \* what shouldOpenInExistingInstance returned
  opc,          \* where openInExistingInstance stands
  idx,          \* its loop counter i
  pipeArgs,     \* the message it builds
  openResult,   \* what it returned ({} while it has not returned)
  conn,         \* state of its http request
  wire,         \* the messages transmitted to the existing instance
  nData,        \* "data" events of the response handled so far
  mpc,          \* where main() stands
  disposeHooks, \* callbacks registered with ipcMain.onDispose
  listening,    \* httpServer.listen() resolved
  dpc,          \* where the disposal of ipcMain stands
  dIdx,         \* dispose callbacks it has been through
  httpDispose   \* httpServer.dispose(): none / pending / done

vars == << isChild, hook, args, pc, entryState, exitCode, log, listeners,
           received, socketPath, opc, idx, pipeArgs, openResult, conn, wire,
           nData, mpc, disposeHooks, listening, dpc, dIdx, httpDispose >>

cliVars == << listeners, received >>
openVars == << socketPath, opc, idx, pipeArgs, openResult, conn, wire, nData >>
dispVars == << dpc, dIdx, httpDispose >>
mainVars == << mpc, disposeHooks, listening, dispVars >>
envVars == << isChild, hook >>

\* ------------------------------------------------------------ helpers
\* JavaScript truthiness of an optional string: undefined and "" are falsy.
Truthy(v) == v # {} /\ v # {""}

\* JavaScript truthiness of an optional array or object: only undefined is falsy.
Defined(v) == v # {}

\* Any reported code but 0 collapsed to 1.
OrZero_flag(code) == IF code = {} \/ code = {0} THEN 0 ELSE 1

\* code || 0
OrZero(code) == IF code = {} \/ code = {0} THEN 0 ELSE CHOOSE c \in code : TRUE

\* path.resolve(p)
Resolve(p) == IF p.abs THEN p ELSE [abs |-> TRUE, segs |-> Cwd \o p.segs]

\* Whatever fs.stat finds counts as a directory.
IsDir_exists(p) == p.segs \in Existing

\* isDir(path): fs.stat throws for a missing path, which gives false.
IsDir(p) == IF p.segs \in Existing THEN p.segs \in Directories ELSE FALSE

Running == exitCode = {}

\* Sequences over S of length at most n.
SeqUpTo(S, n) == UNION { [1..k -> S] : k \in 0..n }

\* What parse + readConfigFile + setDefaults can produce.
ArgsValues ==
  [ help : BOOLEAN, version : BOOLEAN,
    list_extensions : BOOLEAN,
    install_extension : { {}, {<<"ext.a">>} },
    uninstall_extension : { {}, {<<"ext.a">>} },
    new_window : BOOLEAN, reuse_window : BOOLEAN,
    paths : SeqUpTo(ArgPaths, MaxPaths) ]

EmptyPipeArgs ==
  [ type |-> "open", folderURIs |-> <<>>, fileURIs |-> <<>>,
    forceReuseWindow |-> FALSE, forceNewWindow |-> FALSE ]

NoListeners == [ message |-> FALSE, error |-> FALSE, exit |-> FALSE ]

TheArgs == CHOOSE a \in args : TRUE

Init ==
  /\ isChild \in BOOLEAN
  /\ hook \in HookValues
  /\ args = {}
  /\ pc = "tryParse"
  /\ entryState = "pending"
  /\ exitCode = {}
  /\ log = <<>>
  /\ listeners = NoListeners
  /\ received = <<>>
  /\ socketPath = {}
  /\ opc = "idle"
  /\ idx = 0
  /\ pipeArgs = EmptyPipeArgs
  /\ openResult = {}
  /\ conn = "none"
  /\ wire = <<>>
  /\ nData = 0
  /\ mpc = "idle"
  /\ disposeHooks = <<>>
  /\ listening = FALSE
  /\ dpc = "idle"
  /\ dIdx = 0
  /\ httpDispose = "none"

\* ------------------------------------------------------------- entry
\* Append the calls cs to the log.
Called(cs) == log' = log \o cs

\* process.exit(code)
ProcessExit(code) == exitCode' = {code}

\* The exit code ipcMain.exit(error) ends the process with for an error.
IpcMainExitCode == 1

\* const [args, cliArgs, configArgs] = await tryParse()
TryParse ==
  /\ Running /\ pc = "tryParse"
  /\ \/ \E a \in ArgsValues : args' = {a} /\ pc' = "isChild" /\ entryState' = entryState
     \/ args' = args /\ pc' = "thrown" /\ entryState' = "rejected"
  /\ UNCHANGED << envVars, exitCode, log, cliVars, openVars, mainVars >>

\* entry().catch((error) => { logger.error(error.message); ipcMain.exit(error) })
EntryCatch ==
  /\ Running /\ entryState = "rejected"
  /\ Called(<<"logger.error", "ipcMain.exit">>)
  /\ ProcessExit(IpcMainExitCode)
  /\ UNCHANGED << envVars, args, pc, entryState, cliVars, openVars, mainVars >>

\* A child that skips the handshake and the exit guard.
EntryIsChild_noHandshake ==
  /\ Running /\ pc = "isChild"
  /\ IF isChild
       THEN /\ pc' = "main" /\ mpc' = "start" /\ Called(<<"main">>)
       ELSE /\ pc' = "help" /\ mpc' = mpc /\ log' = log
  /\ UNCHANGED << envVars, args, entryState, exitCode, cliVars, openVars,
                  disposeHooks, listening, dispVars >>

\* if (ipcMain.isChild) { await ipcMain.handshake() ...
EntryIsChild ==
  /\ Running /\ pc = "isChild"
  /\ IF isChild
       THEN /\ pc' = "handshake" /\ Called(<<"ipcMain.handshake">>)
       ELSE /\ pc' = "help" /\ log' = log
  /\ UNCHANGED << envVars, args, entryState, exitCode, cliVars, openVars, mainVars >>

\* ... the handshake resolves: ipcMain.preventExit(); return main(...)
\* or it rejects and entry() rejects with it.
EntryHandshake ==
  /\ Running /\ pc = "handshake"
  /\ \/ /\ pc' = "main" /\ mpc' = "start" /\ entryState' = entryState
        /\ Called(<<"handshake resolved", "ipcMain.preventExit", "main">>)
     \/ /\ pc' = "thrown" /\ mpc' = mpc /\ entryState' = "rejected"
        /\ Called(<<"handshake rejected">>)
  /\ UNCHANGED << envVars, args, exitCode, cliVars, openVars, disposeHooks, listening, dispVars >>

\* --help printed, and entry() goes on to the next check.
EntryHelp_noReturn ==
  /\ Running /\ pc = "help"
  /\ pc' = "version" /\ entryState' = entryState
  /\ IF TheArgs.help THEN Called(<<"help">>) ELSE log' = log
  /\ UNCHANGED << envVars, args, exitCode, cliVars, openVars, mainVars >>

\* if (args.help) { console.log(...); return }
EntryHelp ==
  /\ Running /\ pc = "help"
  /\ IF TheArgs.help
       THEN /\ pc' = "done" /\ entryState' = "resolved" /\ Called(<<"help">>)
       ELSE /\ pc' = "version" /\ entryState' = entryState /\ log' = log
  /\ UNCHANGED << envVars, args, exitCode, cliVars, openVars, mainVars >>

\* if (args.version) { console.log(...); return }
EntryVersion ==
  /\ Running /\ pc = "version"
  /\ IF TheArgs.version
       THEN /\ pc' = "done" /\ entryState' = "resolved" /\ Called(<<"version">>)
       ELSE /\ pc' = "cli" /\ entryState' = entryState /\ log' = log
  /\ UNCHANGED << envVars, args, exitCode, cliVars, openVars, mainVars >>

\* Only list-extensions is looked at.
ShouldRunVsCodeCli_listOnly(a) == a.list_extensions

\* shouldRunVsCodeCli(args)
ShouldRunVsCodeCli(a) ==
  \/ a.list_extensions
  \/ Defined(a.install_extension)
  \/ Defined(a.uninstall_extension)

AllListeners == [ message |-> TRUE, error |-> TRUE, exit |-> TRUE ]

\* The subprocess forked, and entry() goes on to the probe.
EntryRunVsCodeCli_noReturn ==
  /\ Running /\ pc = "cli"
  /\ pc' = "probe" /\ entryState' = entryState
  /\ IF ShouldRunVsCodeCli(TheArgs)
       THEN /\ listeners' = AllListeners /\ Called(<<"fork">>)
       ELSE /\ listeners' = listeners /\ log' = log
  /\ UNCHANGED << envVars, args, exitCode, received, openVars, mainVars >>

\* if (shouldRunVsCodeCli(args)) { return runVsCodeCli(args) }
\* runVsCodeCli forks and attaches its three listeners.
EntryRunVsCodeCli ==
  /\ Running /\ pc = "cli"
  /\ IF ShouldRunVsCodeCli(TheArgs)
       THEN /\ pc' = "done" /\ entryState' = "resolved"
            /\ listeners' = AllListeners /\ Called(<<"fork">>)
       ELSE /\ pc' = "probe" /\ entryState' = entryState
            /\ listeners' = listeners /\ log' = log
  /\ UNCHANGED << envVars, args, exitCode, received, openVars, mainVars >>

\* The environment is used only when no new window is asked for.
ShouldOpenInExistingInstance_unlessNewWindow(a) ==
  IF Truthy(hook) /\ ~a.new_window THEN hook ELSE {}

\* shouldOpenInExistingInstance(args)
ShouldOpenInExistingInstance(a) == IF Truthy(hook) THEN hook ELSE {}

\* const socketPath = await shouldOpenInExistingInstance(args)
EntryProbe ==
  /\ Running /\ pc = "probe"
  /\ socketPath' = ShouldOpenInExistingInstance(TheArgs)
  /\ pc' = "socketPath"
  /\ Called(<<"shouldOpenInExistingInstance">>)
  /\ UNCHANGED << envVars, args, entryState, exitCode, cliVars, opc, idx, pipeArgs,
                  openResult, conn, wire, nData, mainVars >>

\* ---------------------------------------------- openInExistingInstance
\* const pipeArgs = { type: "open", folderURIs: [], fileURIs: [], ... }
NewPipeArgs(a) ==
  [ type |-> "open", folderURIs |-> <<>>, fileURIs |-> <<>>,
    forceReuseWindow |-> a.reuse_window, forceNewWindow |-> a.new_window ]

\* One turn of the loop: resolve the path and push it on one of the lists.
Classify(pa, p) ==
  LET fp == Resolve(p)
  IN  IF IsDir(fp)
        THEN [pa EXCEPT !.folderURIs = Append(@, fp)]
        ELSE [pa EXCEPT !.fileURIs = Append(@, fp)]

NewWindowWithFiles_unchecked(pa) == FALSE

\* if (pipeArgs.forceNewWindow && pipeArgs.fileURIs.length > 0)
NewWindowWithFiles(pa) == pa.forceNewWindow /\ Len(pa.fileURIs) > 0

NoTarget_unchecked(pa) == FALSE

\* if (pipeArgs.folderURIs.length === 0 && pipeArgs.fileURIs.length === 0)
NoTarget(pa) == Len(pa.folderURIs) = 0 /\ Len(pa.fileURIs) = 0

\* The request http.request(...) builds and vscode.write(...) fills.
Request(pa, s) == [ path |-> "/", method |-> "POST", socketPath |-> s, body |-> pa ]

\* What follows the loop: the two checks, then request, write, end, return true.
\* pre holds the calls the same synchronous run already made.
OpenTail(pa, pre) ==
  IF NewWindowWithFiles(pa)
    THEN /\ log' = log \o pre \o <<"logger.error: --new-window">>
         /\ ProcessExit(1)
         /\ opc' = "exited" /\ conn' = conn /\ openResult' = openResult
    ELSE IF NoTarget(pa)
      THEN /\ log' = log \o pre \o <<"logger.error: no target">>
           /\ ProcessExit(1)
           /\ opc' = "exited" /\ conn' = conn /\ openResult' = openResult
      ELSE /\ log' = log \o pre \o <<"http.request", "vscode.write", "vscode.end">>
           /\ exitCode' = exitCode
           /\ opc' = "returned" /\ conn' = "pending" /\ openResult' = {TRUE}

\* if (socketPath) { openInExistingInstance(args, socketPath) }: the call runs
\* to its first await (or to its end when there is no path), then entry()
\* returns without awaiting it.
EntryOpenInExistingInstance ==
  /\ Running /\ pc = "socketPath" /\ Truthy(socketPath)
  /\ pipeArgs' = NewPipeArgs(TheArgs)
  /\ idx' = 0
  /\ IF Len(TheArgs.paths) = 0
       THEN OpenTail(pipeArgs', <<"openInExistingInstance">>)
       ELSE /\ Called(<<"openInExistingInstance">>)
            /\ opc' = "loop"
            /\ UNCHANGED << exitCode, conn, openResult >>
  /\ IF exitCode' = {}
       THEN pc' = "done" /\ entryState' = "resolved"
       ELSE pc' = "open" /\ entryState' = entryState
  /\ UNCHANGED << envVars, args, cliVars, socketPath, wire, nData, mainVars >>

\* await isDir(fp) resumes: push, i++, and the next turn or the tail.
OpenClassify ==
  /\ Running /\ opc = "loop" /\ idx < Len(TheArgs.paths)
  /\ pipeArgs' = Classify(pipeArgs, TheArgs.paths[idx + 1])
  /\ idx' = idx + 1
  /\ IF idx' < Len(TheArgs.paths)
       THEN UNCHANGED << log, exitCode, opc, conn, openResult >>
       ELSE OpenTail(pipeArgs', <<>>)
  /\ UNCHANGED << envVars, args, pc, entryState, cliVars, socketPath, wire,
                  nData, mainVars >>

TheSocket == CHOOSE s \in socketPath : TRUE

\* The connection is made and the written request is transmitted.
ConnSent ==
  /\ Running /\ conn = "pending" /\ TheSocket \in LiveSockets
  /\ conn' = "sent"
  /\ wire' = Append(wire, Request(pipeArgs, TheSocket))
  /\ UNCHANGED << envVars, args, pc, entryState, exitCode, log, cliVars,
                  socketPath, opc, idx, pipeArgs, openResult, nData, mainVars >>

\* vscode.on("error", (error) => { logger.error("got error from VS Code", ...) })
ConnError ==
  /\ Running /\ conn \in {"pending", "sent"}
  /\ conn' = "error"
  /\ Called(<<"logger.error: got error from VS Code">>)
  /\ UNCHANGED << envVars, args, pc, entryState, exitCode, cliVars, socketPath,
                  opc, idx, pipeArgs, openResult, wire, nData, mainVars >>

\* Data that comes back is taken for a failure.
ResponseData_fatal ==
  /\ Running /\ conn = "sent" /\ nData < MaxData
  /\ nData' = nData + 1
  /\ Called(<<"logger.error: got message from VS Code">>)
  /\ ProcessExit(1)
  /\ UNCHANGED << envVars, args, pc, entryState, cliVars, socketPath,
                  opc, idx, pipeArgs, openResult, conn, wire, mainVars >>

\* response.on("data", (message) => { logger.debug("got message from VS Code", ...) })
ResponseData ==
  /\ Running /\ conn = "sent" /\ nData < MaxData
  /\ nData' = nData + 1
  /\ Called(<<"logger.debug: got message from VS Code">>)
  /\ UNCHANGED << envVars, args, pc, entryState, exitCode, cliVars, socketPath,
                  opc, idx, pipeArgs, openResult, conn, wire, mainVars >>

\* The response ends and the connection closes.
ResponseEnd ==
  /\ Running /\ conn = "sent"
  /\ conn' = "closed"
  /\ UNCHANGED << envVars, args, pc, entryState, exitCode, log, cliVars,
                  socketPath, opc, idx, pipeArgs, openResult, wire, nData, mainVars >>

\* ------------------------------------------------------ WrapperProcess
\* The else is gone: the wrapper starts after the delegation as well.
EntryWrapperStart_noElse ==
  /\ Running
  /\ \/ pc = "socketPath" /\ ~Truthy(socketPath)
     \/ pc = "done" /\ opc # "idle"
  /\ pc' = "wrapper"
  /\ Called(<<"WrapperProcess.start">>)
  /\ UNCHANGED << envVars, args, entryState, exitCode, cliVars, openVars, mainVars >>

\* else { const wrapper = new WrapperProcess(...); return wrapper.start() }
EntryWrapperStart ==
  /\ Running /\ pc = "socketPath" /\ ~Truthy(socketPath)
  /\ pc' = "wrapper"
  /\ Called(<<"WrapperProcess.start">>)
  /\ UNCHANGED << envVars, args, entryState, exitCode, cliVars, openVars, mainVars >>

\* wrapper.start() settles and entry() settles with it.
EntryWrapperSettled ==
  /\ Running /\ pc = "wrapper"
  /\ \/ pc' = "done" /\ entryState' = "resolved"
     \/ pc' = "thrown" /\ entryState' = "rejected"
  /\ UNCHANGED << envVars, args, exitCode, log, cliVars, openVars, mainVars >>

\* -------------------------------------------------------- runVsCodeCli
Event(e, t, c) == [ event |-> e, type |-> t, code |-> c ]

Messages == { i \in 1..Len(received) : received[i].event = "message" }

\* vscode.on("message", ...): the listener stays attached.
OnMessage_on(m) ==
  /\ Running /\ listeners.exit /\ Cardinality(Messages) < MaxMessages
  /\ received' = Append(received, Event("message", m, {}))
  /\ listeners' = listeners
  /\ IF listeners.message
       THEN IF m # "ready"
              THEN /\ Called(<<"logger.error: unexpected response">>)
                   /\ ProcessExit(1)
              ELSE /\ Called(<<"vscode.send cli">>)
                   /\ exitCode' = exitCode
       ELSE UNCHANGED << log, exitCode >>
  /\ UNCHANGED << envVars, args, pc, entryState, openVars, mainVars >>

\* The unexpected type is logged, and the cli message is sent all the same.
OnMessage_noExit(m) ==
  /\ Running /\ listeners.exit /\ Cardinality(Messages) < MaxMessages
  /\ received' = Append(received, Event("message", m, {}))
  /\ IF listeners.message
       THEN /\ listeners' = [listeners EXCEPT !.message = FALSE]
            /\ IF m # "ready"
                 THEN Called(<<"logger.error: unexpected response", "vscode.send cli">>)
                 ELSE Called(<<"vscode.send cli">>)
            /\ exitCode' = exitCode
       ELSE UNCHANGED << listeners, log, exitCode >>
  /\ UNCHANGED << envVars, args, pc, entryState, openVars, mainVars >>

\* The process ends once the cli message is sent.
OnMessage_exitAfterSend(m) ==
  /\ Running /\ listeners.exit /\ Cardinality(Messages) < MaxMessages
  /\ received' = Append(received, Event("message", m, {}))
  /\ IF listeners.message
       THEN /\ listeners' = [listeners EXCEPT !.message = FALSE]
            /\ IF m # "ready"
                 THEN /\ Called(<<"logger.error: unexpected response">>)
                      /\ ProcessExit(1)
                 ELSE /\ Called(<<"vscode.send cli">>)
                      /\ ProcessExit(0)
       ELSE UNCHANGED << listeners, log, exitCode >>
  /\ UNCHANGED << envVars, args, pc, entryState, openVars, mainVars >>

\* vscode.once("message", (message) => { ... }): the subprocess sends m.
OnMessage(m) ==
  /\ Running /\ listeners.exit /\ Cardinality(Messages) < MaxMessages
  /\ received' = Append(received, Event("message", m, {}))
  /\ IF listeners.message
       THEN /\ listeners' = [listeners EXCEPT !.message = FALSE]
            /\ IF m # "ready"
                 THEN /\ Called(<<"logger.error: unexpected response">>)
                      /\ ProcessExit(1)
                 ELSE /\ Called(<<"vscode.send cli">>)
                      /\ exitCode' = exitCode
       ELSE UNCHANGED << listeners, log, exitCode >>
  /\ UNCHANGED << envVars, args, pc, entryState, openVars, mainVars >>

\* The error is logged and the process goes on.
OnError_logOnly ==
  /\ Running /\ listeners.exit
  /\ received' = Append(received, Event("error", "", {}))
  /\ IF listeners.error
       THEN /\ listeners' = [listeners EXCEPT !.error = FALSE]
            /\ Called(<<"logger.error: got error from VS Code (cli)">>)
            /\ exitCode' = exitCode
       ELSE UNCHANGED << listeners, log, exitCode >>
  /\ UNCHANGED << envVars, args, pc, entryState, openVars, mainVars >>

\* vscode.once("error", (error) => { logger.error(...); process.exit(1) })
OnError ==
  /\ Running /\ listeners.exit
  /\ received' = Append(received, Event("error", "", {}))
  /\ IF listeners.error
       THEN /\ listeners' = [listeners EXCEPT !.error = FALSE]
            /\ Called(<<"logger.error: got error from VS Code (cli)">>)
            /\ ProcessExit(1)
       ELSE UNCHANGED << listeners, log, exitCode >>
  /\ UNCHANGED << envVars, args, pc, entryState, openVars, mainVars >>

\* vscode.on("exit", (code) => process.exit(code || 0))
OnExit(code) ==
  /\ Running /\ listeners.exit
  /\ received' = Append(received, Event("exit", "", code))
  /\ ProcessExit(OrZero(code))
  /\ UNCHANGED << envVars, args, pc, entryState, log, listeners, openVars, mainVars >>

\* ---------------------------------------------------------------- main
\* Values of args.auth, process.env.PASSWORD / args.password, args.cert and
\* args["cert-key"], which only main reads.
AuthValues == { {}, {"password"}, {"none"} }
PasswordValues == { {}, {"secret"} }
CertValues == { {}, {[value |-> {}]}, {[value |-> {"cert.pem"}]} }
CertKeyValues == { {}, {"key.pem"} }

\* if (!args.auth) { args = { ...args, auth: AuthType.Password } }
AuthOf(auth) == IF Truthy(auth) THEN auth ELSE {"password"}

\* args.auth === AuthType.Password && !password
PasswordMissing(auth, envPassword, argPassword) ==
  /\ AuthOf(auth) = {"password"}
  /\ ~Truthy(envPassword) /\ ~Truthy(argPassword)

\* args.cert && !args.cert.value
GeneratesCertificate(cert) == Defined(cert) /\ \A c \in cert : ~Truthy(c.value)

\* options.cert && !options.certKey, for a certificate that was passed in
CertKeyMissing(cert, certKey) ==
  /\ Defined(cert) /\ \A c \in cert : Truthy(c.value)
  /\ ~Truthy(certKey)

\* main throws: the promise main() returned rejects, and entry()'s with it.
MainThrows ==
  /\ mpc' = "thrown" /\ pc' = "thrown" /\ entryState' = "rejected"

\* main up to its first await: the password check, the options, and either
\* await generateCertificate() or the server and await loadPlugins(...).
MainStart ==
  /\ Running /\ mpc = "start"
  /\ \E auth \in AuthValues, envPassword \in PasswordValues,
        argPassword \in PasswordValues, cert \in CertValues,
        certKey \in CertKeyValues :
       IF PasswordMissing(auth, envPassword, argPassword)
         THEN MainThrows /\ log' = log
         ELSE IF GeneratesCertificate(cert)
           THEN /\ mpc' = "generateCertificate"
                /\ Called(<<"generateCertificate">>)
                /\ UNCHANGED << pc, entryState >>
           ELSE IF CertKeyMissing(cert, certKey)
             THEN MainThrows /\ log' = log
             ELSE /\ mpc' = "loadPlugins"
                  /\ Called(<<"new HttpServer", "loadPlugins">>)
                  /\ UNCHANGED << pc, entryState >>
  /\ UNCHANGED << envVars, args, exitCode, cliVars, openVars, disposeHooks, listening, dispVars >>

\* await generateCertificate() settles; the certificate comes with its key.
MainCertificate ==
  /\ Running /\ mpc = "generateCertificate"
  /\ \/ /\ mpc' = "loadPlugins"
        /\ Called(<<"new HttpServer", "loadPlugins">>)
        /\ UNCHANGED << pc, entryState >>
     \/ MainThrows /\ log' = log
  /\ UNCHANGED << envVars, args, exitCode, cliVars, openVars, disposeHooks, listening, dispVars >>

\* httpServer.listen() called with no dispose callback registered.
MainPlugins_noDispose ==
  /\ Running /\ mpc = "loadPlugins"
  /\ \/ /\ mpc' = "listen"
        /\ Called(<<"httpServer.listen">>)
        /\ UNCHANGED << pc, entryState, disposeHooks >>
     \/ MainThrows /\ UNCHANGED << log, disposeHooks >>
  /\ UNCHANGED << envVars, args, exitCode, cliVars, openVars, listening, dispVars >>

\* await loadPlugins(...) settles; ipcMain.onDispose(...); await httpServer.listen()
MainPlugins ==
  /\ Running /\ mpc = "loadPlugins"
  /\ \/ /\ mpc' = "listen"
        /\ disposeHooks' = Append(disposeHooks, "httpServer.dispose")
        /\ Called(<<"ipcMain.onDispose", "httpServer.listen">>)
        /\ UNCHANGED << pc, entryState >>
     \/ MainThrows /\ UNCHANGED << log, disposeHooks >>
  /\ UNCHANGED << envVars, args, exitCode, cliVars, openVars, listening, dispVars >>

\* await httpServer.listen() settles; the address is logged and, when
\* serverAddress && !options.socket && args.open, await open(openAddress).
MainListen ==
  /\ Running /\ mpc = "listen"
  /\ \/ /\ listening' = TRUE
        /\ Called(<<"HTTP server listening">>)
        /\ \/ mpc' = "open" /\ UNCHANGED << pc, entryState >>
           \/ mpc' = "done" /\ pc' = "done" /\ entryState' = "resolved"
     \/ MainThrows /\ UNCHANGED << log, listening >>
  /\ UNCHANGED << envVars, args, exitCode, cliVars, openVars, disposeHooks, dispVars >>

\* await open(openAddress).catch(...) settles: a failure is only logged.
MainOpen ==
  /\ Running /\ mpc = "open"
  /\ mpc' = "done" /\ pc' = "done" /\ entryState' = "resolved"
  /\ \/ Called(<<"Opened">>)
     \/ Called(<<"logger.error: Failed to open", "Opened">>)
  /\ UNCHANGED << envVars, args, exitCode, cliVars, openVars, disposeHooks, listening, dispVars >>

\* ------------------------------------------------------------ disposal
\* What the callback main passes to ipcMain.onDispose returns: its body
\* calls httpServer.dispose().then(...) and returns nothing, so there is no
\* promise to await ({} is undefined).
OnDisposeCallbackResult == {}

\* The exit code of a process that ends after an orderly disposal.
DisposedExitCode == 0

\* A termination request reaches a process that called ipcMain.preventExit():
\* it is routed through the disposal.
ExitRequest ==
  /\ Running /\ dpc = "idle"
  /\ \E i \in 1..Len(log) : log[i] = "ipcMain.preventExit"
  /\ dpc' = "running" /\ dIdx' = 0
  /\ Called(<<"exit requested">>)
  /\ UNCHANGED << envVars, args, pc, entryState, exitCode, cliVars, openVars,
                  mpc, disposeHooks, listening, httpDispose >>

\* The disposal invokes the next callback, in registration order, and awaits
\* what it returned.  The callback of main starts httpServer.dispose().
DisposeNext ==
  /\ Running /\ dpc = "running" /\ dIdx < Len(disposeHooks)
  /\ httpDispose' = "pending"
  /\ Called(<<disposeHooks[dIdx + 1]>>)
  /\ IF Defined(OnDisposeCallbackResult)
       THEN dpc' = "awaiting" /\ dIdx' = dIdx
       ELSE dpc' = dpc /\ dIdx' = dIdx + 1
  /\ UNCHANGED << envVars, args, pc, entryState, exitCode, cliVars, openVars,
                  mpc, disposeHooks, listening >>

\* httpServer.dispose() settles: .then((errors) => errors.forEach(logger.error)).
\* A disposal awaiting it resumes.
HttpDisposed ==
  /\ Running /\ httpDispose = "pending"
  /\ httpDispose' = "done"
  /\ listening' = FALSE
  /\ \/ Called(<<"dispose errors logged">>)
     \/ Called(<<"logger.error: dispose", "dispose errors logged">>)
  /\ IF dpc = "awaiting"
       THEN dpc' = "running" /\ dIdx' = dIdx + 1
       ELSE UNCHANGED << dpc, dIdx >>
  /\ UNCHANGED << envVars, args, pc, entryState, exitCode, cliVars, openVars,
                  mpc, disposeHooks >>

\* Every callback has been through: the disposal is finished.
DisposeFinish ==
  /\ Running /\ dpc = "running" /\ dIdx = Len(disposeHooks)
  /\ dpc' = "finished"
  /\ Called(<<"disposed">>)
  /\ UNCHANGED << envVars, args, pc, entryState, exitCode, cliVars, openVars,
                  mpc, disposeHooks, listening, dIdx, httpDispose >>

\* The disposed process ends.
DisposedExit ==
  /\ Running /\ dpc = "finished"
  /\ ProcessExit(DisposedExitCode)
  /\ UNCHANGED << envVars, args, pc, entryState, log, cliVars, openVars, mainVars >>

\* -------------------------------------------------------- the process
\* Nothing is left to wait for: no subprocess, no request in flight, no
\* server, no wrapper.  The process ends with code 0.
Idle ==
  /\ entryState = "resolved"
  /\ ~listeners.exit
  /\ opc # "loop"
  /\ conn \notin {"pending", "sent"}
  /\ ~listening
  /\ dpc \in {"idle", "finished"} /\ httpDispose # "pending"
  /\ \A i \in 1..Len(log) : log[i] # "WrapperProcess.start"

NaturalExit ==
  /\ Running /\ Idle
  /\ ProcessExit(0)
  /\ UNCHANGED << envVars, args, pc, entryState, log, cliVars, openVars, mainVars >>

Next ==
  \/ TryParse
  \/ EntryCatch
  \/ EntryIsChild
  \/ EntryHandshake
  \/ EntryHelp
  \/ EntryVersion
  \/ EntryRunVsCodeCli
  \/ EntryProbe
  \/ EntryOpenInExistingInstance
  \/ OpenClassify
  \/ ConnSent
  \/ ConnError
  \/ ResponseData
  \/ ResponseEnd
  \/ EntryWrapperStart
  \/ EntryWrapperSettled
  \/ \E m \in MessageTypes : OnMessage(m)
  \/ OnError
  \/ \E code \in ChildCodes : OnExit(code)
  \/ MainStart
  \/ MainCertificate
  \/ MainPlugins
  \/ MainListen
  \/ MainOpen
  \/ NaturalExit

Spec == Init /\ [][Next]_vars

\* ------------------------------------------- the child and its disposal
\* The arguments the child process is followed with: every combination of
\* flags, no positional path (the child reads none of them).
ChildArgs == { a \in ArgsValues : a.paths = <<>> }

\* The child process once tryParse() resolved.
InitChild ==
  /\ isChild = TRUE
  /\ hook \in { {}, {"/tmp/live.sock"} }
  /\ args \in { {a} : a \in ChildArgs }
  /\ pc = "isChild"
  /\ entryState = "pending"
  /\ exitCode = {}
  /\ log = <<>>
  /\ listeners = NoListeners
  /\ received = <<>>
  /\ socketPath = {}
  /\ opc = "idle"
  /\ idx = 0
  /\ pipeArgs = EmptyPipeArgs
  /\ openResult = {}
  /\ conn = "none"
  /\ wire = <<>>
  /\ nData = 0
  /\ mpc = "idle"
  /\ disposeHooks = <<>>
  /\ listening = FALSE
  /\ dpc = "idle"
  /\ dIdx = 0
  /\ httpDispose = "none"

\* The child: entry() in child role, main, and termination requests.
NextChild ==
  \/ EntryCatch
  \/ EntryIsChild
  \/ EntryHandshake
  \/ MainStart
  \/ MainCertificate
  \/ MainPlugins
  \/ MainListen
  \/ MainOpen
  \/ ExitRequest
  \/ DisposeNext
  \/ HttpDisposed
  \/ DisposeFinish
  \/ DisposedExit
  \/ NaturalExit

SpecChild == InitChild /\ [][NextChild]_vars

\* ------------------------------------------------------------ claims
InLog(x) == \E i \in 1..Len(log) : log[i] = x
Count(x) == Cardinality({ i \in 1..Len(log) : log[i] = x })
Before(x, y) == \E i, j \in 1..Len(log) : i < j /\ log[i] = x /\ log[j] = y

\* C1: whenever the probe gave a socket address and the transmission to it
\* hit a transport error, the process does not end without having started a
\* new server instance (WrapperProcess.start).
C1_FallsBackToNewInstance ==
  (socketPath # {} /\ conn = "error" /\ exitCode # {}) => InLog("WrapperProcess.start")

ReadySeenBefore(i) ==
  \E j \in 1..(i - 1) : received[j].event = "message" /\ received[j].type = "ready"

\* C2: when the subprocess's exit event arrives and no ready message was ever
\* received, the parent exits with code 1, whatever code the subprocess reported.
C2_ExitWithoutReadyIsFatal ==
  \A i \in 1..Len(received) :
    (received[i].event = "exit" /\ ~ReadySeenBefore(i)) => exitCode = {1}

\* C3: the parent sends at most one "cli" message, and a "cli" message was
\* sent only if a "ready" message was received, as the first message.
C3_CliSentOnceAfterReady ==
  /\ Count("vscode.send cli") <= 1
  /\ InLog("vscode.send cli") =>
       /\ Messages # {}
       /\ \A i \in Messages :
            (\A j \in Messages : i <= j) => received[i].type = "ready"

\* C3 witness: the cli message went out and later messages arrived.
C3_Witness ==
  /\ Count("vscode.send cli") = 1
  /\ Cardinality(Messages) = MaxMessages
  /\ \E i \in Messages : i > 1 /\ received[i].type = "ready"

HasFilePath ==
  \E i \in 1..Len(TheArgs.paths) : ~IsDir(Resolve(TheArgs.paths[i]))

\* C4: an invocation with new-window and at least one path that is a file
\* never opens a connection nor writes to the socket, and once
\* openInExistingInstance is past its loop the process has exited with code 1;
\* no transmitted message has forceNewWindow with a non-empty fileURIs.
C4_NewWindowWithFilesRejected ==
  /\ (args # {} /\ TheArgs.new_window /\ HasFilePath) =>
       /\ conn = "none" /\ wire = <<>> /\ openResult = {}
       /\ ~InLog("http.request") /\ ~InLog("vscode.write")
       /\ opc \notin {"idle", "loop"} => (opc = "exited" /\ exitCode = {1})
  /\ \A i \in 1..Len(wire) :
       ~(wire[i].body.forceNewWindow /\ Len(wire[i].body.fileURIs) > 0)

\* C4 witness: new-window with a folder and a file, rejected after the loop.
C4_Witness ==
  /\ args # {} /\ TheArgs.new_window
  /\ opc = "exited" /\ exitCode = {1}
  /\ Len(pipeArgs.folderURIs) > 0 /\ Len(pipeArgs.fileURIs) > 0

\* C5: when openInExistingInstance is past its loop with no folder and no
\* file identifier, the process has exited with code 1 and nothing was
\* requested or transmitted; every transmitted message carries an identifier.
C5_NoTargetRejected ==
  /\ (opc \in {"exited", "returned"}
        /\ Len(pipeArgs.folderURIs) = 0 /\ Len(pipeArgs.fileURIs) = 0) =>
       /\ exitCode = {1} /\ opc = "exited"
       /\ conn = "none" /\ wire = <<>> /\ ~InLog("http.request")
  /\ \A i \in 1..Len(wire) :
       Len(wire[i].body.folderURIs) + Len(wire[i].body.fileURIs) >= 1

\* C5 witness: a delegation without positional paths, rejected.
C5_Witness ==
  /\ args # {} /\ Len(TheArgs.paths) = 0
  /\ InLog("openInExistingInstance") /\ opc = "exited" /\ exitCode = {1}

Modes == { "fork", "openInExistingInstance", "WrapperProcess.start" }
ModeCount == Cardinality({ i \in 1..Len(log) : log[i] \in Modes })

\* C6: at most one of the three modes (fork of the CLI, open in the existing
\* instance, wrapper start) is taken; a non-child invocation without help or
\* version that is past the arbitration took exactly one; with help or
\* version none is taken.
C6_ExactlyOneMode ==
  /\ ModeCount <= 1
  /\ (args # {} /\ ~isChild /\ ~TheArgs.help /\ ~TheArgs.version
        /\ pc \in {"done", "open", "wrapper", "thrown"}) => ModeCount = 1
  /\ (args # {} /\ (TheArgs.help \/ TheArgs.version)) => ModeCount = 0

\* C6 witness: each of the three modes was the one taken, in some run.
C6_Witness ==
  /\ args # {} /\ ~isChild /\ ~TheArgs.help /\ ~TheArgs.version
  /\ pc = "done" /\ ModeCount = 1 /\ InLog("openInExistingInstance")
  /\ conn = "closed"

\* C7: when the exit event of the subprocess is handled with code c, the
\* parent has exited with c, and with 0 when c is null.
C7_ExitCodePropagated ==
  \A i \in 1..Len(received) :
    received[i].event = "exit" =>
      exitCode = (IF received[i].code = {} THEN {0} ELSE received[i].code)

\* C7 witness: the subprocess exited with 3 after the cli message was sent.
C7_Witness ==
  /\ InLog("vscode.send cli")
  /\ \E i \in 1..Len(received) : received[i].event = "exit" /\ received[i].code = {3}
  /\ exitCode = {3}

ParentOnly ==
  { "help", "version", "fork", "shouldOpenInExistingInstance",
    "openInExistingInstance", "WrapperProcess.start" }

\* C8: main starts, and the HTTP server listens, only after the handshake
\* resolved and preventExit was called; in child role no help or version
\* output, fork, probe, delegation or wrapper start happens.
C8_ChildHandshakeFirst ==
  /\ InLog("main") =>
       /\ Before("handshake resolved", "main")
       /\ Before("ipcMain.preventExit", "main")
  /\ mpc # "idle" => InLog("main")
  /\ InLog("httpServer.listen") =>
       /\ Before("handshake resolved", "httpServer.listen")
       /\ Before("ipcMain.preventExit", "httpServer.listen")
  /\ listening => InLog("httpServer.listen")
  /\ isChild => \A i \in 1..Len(log) : log[i] \notin ParentOnly

\* C8 witness: a child started with --help and a CLI flag, now listening.
C8_Witness ==
  /\ isChild /\ listening
  /\ args # {} /\ TheArgs.help /\ TheArgs.list_extensions

\* C9: a transport error on the connection makes openInExistingInstance
\* report failure to its caller.
C9_ReportsTransportFailure ==
  conn = "error" => openResult = {FALSE}

\* C10: an address the probe returned is the address of a live instance.
C10_ProbeReturnsLiveInstance ==
  \A s \in socketPath : s \in LiveSockets

\* The type of the first message the subprocess sent ({} when it sent none).
FirstMessage ==
  IF Messages = {} THEN {}
  ELSE { received[CHOOSE i \in Messages : \A j \in Messages : i <= j].type }

\* C11: when the first message of the subprocess is not of type "ready", the
\* parent has exited with code 1 and no "cli" message was sent.
C11_NonReadyFirstIsFatal ==
  (FirstMessage # {} /\ FirstMessage # {"ready"}) =>
    (exitCode = {1} /\ ~InLog("vscode.send cli"))

\* C11 witness: the forked subprocess sent another message first.
C11_Witness ==
  /\ InLog("fork") /\ FirstMessage = {"other"}
  /\ InLog("logger.error: unexpected response") /\ exitCode = {1}

CliRequested ==
  /\ args # {} /\ ~isChild /\ ~TheArgs.help /\ ~TheArgs.version
  /\ \/ TheArgs.list_extensions
     \/ TheArgs.install_extension # {}
     \/ TheArgs.uninstall_extension # {}

\* C12: a non-child invocation without help/version that asks for
\* list-extensions, install-extension or uninstall-extension forks the CLI
\* and ends there: no probe, no open message, no wrapper start.
C12_CliIsTerminal ==
  CliRequested =>
    /\ ~InLog("shouldOpenInExistingInstance")
    /\ ~InLog("openInExistingInstance")
    /\ ~InLog("WrapperProcess.start")
    /\ socketPath = {} /\ opc = "idle" /\ conn = "none" /\ wire = <<>>
    /\ pc \notin {"isChild", "help", "version", "cli"} =>
         (pc = "done" /\ Count("fork") = 1)

\* C12 witness: uninstall-extension alone, inside a live instance's terminal
\* and with positional paths; the subprocess was forked and has exited.
C12_Witness ==
  /\ CliRequested
  /\ ~TheArgs.list_extensions /\ TheArgs.install_extension = {}
  /\ hook = {"/tmp/live.sock"} /\ Len(TheArgs.paths) > 0
  /\ InLog("fork") /\ exitCode # {}

\* C13: once the open message has been transmitted to the instance the probe
\* found, no new server is started (neither WrapperProcess.start nor main),
\* entry() has resolved, the process can only end with code 0, and it is
\* able to end as soon as the response has ended.
C13_DelegationEndsWithZero ==
  (Truthy(socketPath) /\ wire # <<>>) =>
    /\ ~InLog("WrapperProcess.start") /\ ~InLog("main") /\ mpc = "idle"
    /\ pc = "done" /\ entryState = "resolved"
    /\ exitCode # {} => exitCode = {0}
    /\ (Running /\ conn = "closed") => ENABLED NaturalExit

\* C13 witness: transmitted, response ended, process ended with 0.
C13_Witness ==
  /\ Truthy(socketPath) /\ Len(wire) = 1 /\ conn = "closed" /\ exitCode = {0}

\* The absolute path of a positional path, for the working directory /tmp.
ExpectedPath(p) == IF p.abs THEN p ELSE [abs |-> TRUE, segs |-> <<"tmp">> \o p.segs]
IsDirectoryPath(p) == p.segs \in Directories
IsOtherPath(p) == p.segs \notin Directories
\* The first n positional paths, made absolute.
ResolvedPaths(n) == [ i \in 1..n |-> ExpectedPath(TheArgs.paths[i]) ]

\* C14: after i turns of the loop, folderURIs holds the absolute paths of the
\* first i positional paths that are existing directories and fileURIs the
\* others (missing paths included), each in the order of the invocation;
\* past the loop every positional path is in exactly one of the lists.
C14_PathsClassifiedInOrder ==
  opc # "idle" =>
    /\ pipeArgs.folderURIs = SelectSeq(ResolvedPaths(idx), IsDirectoryPath)
    /\ pipeArgs.fileURIs = SelectSeq(ResolvedPaths(idx), IsOtherPath)
    /\ Len(pipeArgs.folderURIs) + Len(pipeArgs.fileURIs) = idx
    /\ opc \in {"exited", "returned"} => idx = Len(TheArgs.paths)
    /\ \A i \in 1..Len(wire) :
         /\ wire[i].body.folderURIs
              = SelectSeq(ResolvedPaths(Len(TheArgs.paths)), IsDirectoryPath)
         /\ wire[i].body.fileURIs
              = SelectSeq(ResolvedPaths(Len(TheArgs.paths)), IsOtherPath)

\* C14 witness: /tmp/proj (a directory) and a.txt (a file of /tmp) transmitted
\* as folderURIs = [/tmp/proj], fileURIs = [/tmp/a.txt].
C14_Witness ==
  /\ args # {}
  /\ TheArgs.paths = << [abs |-> TRUE, segs |-> <<"tmp", "proj">>],
                        [abs |-> FALSE, segs |-> <<"a.txt">>] >>
  /\ Len(wire) = 1
  /\ wire[1].body.folderURIs = << [abs |-> TRUE, segs |-> <<"tmp", "proj">>] >>
  /\ wire[1].body.fileURIs = << [abs |-> TRUE, segs |-> <<"tmp", "a.txt">>] >>

\* C15: the probe returns the address VSCODE_IPC_HOOK_CLI carries when it
\* carries one, whatever the flags, and none when it carries none.
C15_ProbeIsTheEnvironment ==
  IF InLog("shouldOpenInExistingInstance")
    THEN socketPath = (IF hook = {} \/ hook = {""} THEN {} ELSE hook)
    ELSE socketPath = {}

\* C15 witness: the address is returned with new-window and reuse-window set.
C15_Witness ==
  /\ InLog("shouldOpenInExistingInstance")
  /\ TheArgs.new_window /\ TheArgs.reuse_window
  /\ hook = {"/tmp/live.sock"} /\ socketPath = {"/tmp/live.sock"}

\* C16: when the disposal is finished, the cleanup of every registered
\* callback has completed: the HTTP server's dispose has settled and its
\* errors have been logged.
C16_DisposalAwaitsCallbacks ==
  (dpc = "finished" /\ Len(disposeHooks) > 0) =>
    (httpDispose = "done" /\ InLog("dispose errors logged"))

\* C17: a delegation makes at most one request, one write and one end, in
\* that order, and transmits at most one message; it has returned true while
\* the request is still pending; a "data" event of the response changes
\* neither the result, nor the exit code, nor what was transmitted.
C17_FireAndForget ==
  /\ [](/\ Count("http.request") <= 1 /\ Count("vscode.write") <= 1
        /\ Count("vscode.end") <= 1 /\ Len(wire) <= 1
        /\ opc = "returned" =>
             /\ Count("http.request") = 1 /\ Count("vscode.write") = 1
             /\ Count("vscode.end") = 1
             /\ Before("http.request", "vscode.write")
             /\ Before("vscode.write", "vscode.end")
        /\ conn # "none" => (opc = "returned" /\ openResult = {TRUE}))
  /\ [][nData' # nData =>
          /\ openResult' = openResult /\ exitCode' = exitCode
          /\ wire' = wire /\ conn' = conn /\ opc' = opc]_vars

\* C17 witness: data came back after the message was transmitted, and the
\* process ended with 0.
C17_Witness ==
  /\ Len(wire) = 1 /\ nData >= 1 /\ openResult = {TRUE} /\ exitCode = {0}

\* C18: once the subprocess has emitted an error event the parent has exited
\* with code 1, before ready as well as after the cli message was sent.
C18_ErrorEventIsFatal ==
  \A i \in 1..Len(received) : received[i].event = "error" => exitCode = {1}

\* C18 witness: the error event came after the cli message was forwarded.
C18_Witness ==
  /\ InLog("vscode.send cli")
  /\ Len(received) >= 2 /\ received[Len(received)].event = "error"
  /\ exitCode = {1}

\* An event of the subprocess that ends the parent.
TerminalEvent(i) ==
  \/ received[i].event \in {"error", "exit"}
  \/ /\ received[i].event = "message" /\ received[i].type # "ready"
     /\ \A j \in Messages : i <= j

\* A step of the parent that no event of the subprocess triggers.
ParentStep ==
  \/ TryParse \/ EntryCatch \/ EntryIsChild \/ EntryHandshake \/ EntryHelp
  \/ EntryVersion \/ EntryRunVsCodeCli \/ EntryProbe
  \/ EntryOpenInExistingInstance \/ OpenClassify \/ ConnSent \/ ConnError
  \/ ResponseData \/ ResponseEnd \/ EntryWrapperStart \/ EntryWrapperSettled
  \/ MainStart \/ MainCertificate \/ MainPlugins \/ MainListen \/ MainOpen
  \/ NaturalExit

\* C19: after the fork the parent has terminated exactly when the subprocess
\* sent a non-ready first message, emitted an error or exited; while it
\* runs, no step of its own is left (no timeout: only an event of the
\* subprocess moves it), and an error or exit event is able to end it.
C19_OnlyTheSubprocessEndsTheParent ==
  InLog("fork") =>
    /\ exitCode # {} <=> \E i \in 1..Len(received) : TerminalEvent(i)
    /\ Running =>
         /\ ~ENABLED ParentStep
         /\ ENABLED OnError
         /\ \A code \in ChildCodes : ENABLED OnExit(code)

\* C19 witness: the subprocess is ready, got the cli message, keeps sending,
\* and the parent is still waiting.
C19_Witness ==
  /\ InLog("fork") /\ InLog("vscode.send cli") /\ Running
  /\ Cardinality(Messages) = Len(received) /\ Len(received) >= 2

\* C20: httpServer.listen is called only after the dispose callback was
\* registered; whenever listen is pending or the server listens the callback
\* is registered; a disposal finished for an exit request that came after
\* the call of listen has invoked it.
C20_DisposeRegisteredBeforeListen ==
  /\ InLog("httpServer.listen") => Before("ipcMain.onDispose", "httpServer.listen")
  /\ (mpc = "listen" \/ listening) =>
       \E i \in 1..Len(disposeHooks) : disposeHooks[i] = "httpServer.dispose"
  /\ (dpc = "finished" /\ Before("httpServer.listen", "exit requested")) =>
       (InLog("httpServer.dispose") /\ httpDispose # "none")

\* C20 witness: the server listens, an exit request came after the call of
\* listen, and the disposal has invoked the callback.
C20_Witness ==
  /\ listening /\ dpc = "finished"
  /\ Before("httpServer.listen", "exit requested")
  /\ Before("exit requested", "httpServer.dispose")
====
